---- MODULE Spec2Model ----
(***************************************************************************)
(* The four debug panel views of debugViews.ts (VariablesView,             *)
(* WatchExpressionsView, CallStackView, BreakpointsView) as a state        *)
(* machine: the refresh schedulers, the promise chains the scheduler       *)
(* callbacks and event handlers start on the tree, the error sink, and     *)
(* the breakpoints sorter.                                                 *)
(*                                                                         *)
(* The views share no mutable state (each owns its tree and scheduler and  *)
(* only reads the debug model and the view model), so a behaviour follows  *)
(* one view, chosen in Init, through every interleaving of environment     *)
(* events, timer expiry and completion of its asynchronous tree            *)
(* operations.                                                             *)
(*                                                                         *)
(* events counts the environment events of the behaviour so far.           *)
(***************************************************************************)
EXTENDS Integers, Sequences, FiniteSets, TLC

\* ------------------------------------------------------------------ bounds
\* Number of environment events (notifications, user gestures) in one run.
MaxEvents == 3
\* Number of promise chains pending at once: a handler that would start one
\* more runs after one of them has settled.
MaxInFlight == 2
\* Longest breakpoint list handed to the sorter.
MaxLen == 3

\* ------------------------------------------------------- program constants
VariablesDelay == 400
WatchDelay == 50
CallStackDelay == 50
MAX_VISIBLE_FILES == 9
RowHeight == 22

\* ---------------------------------------------------------------- universe
None == "none"

VARIABLES
    view,             \* the view this behaviour follows
    rendered,         \* renderBody has run: this.tree exists
    timeouts,         \* armed timeouts of the RunOnceScheduler: ms left of each
    events,           \* environment events so far
    stale,            \* "yes": the view handled a change notification and no
                      \* load of the tree started after it has settled; "failed":
                      \* that load was rejected; "no" otherwise
    burst,            \* refreshes onBreakpointsChange started since the clock advanced
    inflight,         \* promise chains whose current tree operation is pending
    last,             \* what the most recent step did
    input,            \* tree.getInput()
    expanded,         \* tree.getExpandedElements(), as a set
    selection,        \* tree selection
    revealed,         \* element last revealed
    highlight,        \* tree highlight
    treeFrame,        \* stack frame whose scopes the variables tree shows
    expandedElements, \* VariablesView.expandedElements
    toReveal,         \* WatchExpressionsView.toReveal
    panelExpanded,    \* ViewsViewletPanel.isExpanded()
    pauseMessage,     \* CallStackView pause message in the header
    bodySize,         \* BreakpointsView minimum/maximum body size
    focus,            \* view model: focused process, thread, stack frame
    debug,            \* debug model: processes, threads, breakpoints
    list,             \* breakpoints handed to the sorter
    sorted            \* the sorter's output

treeVars == <<input, expanded, selection, revealed, highlight, treeFrame>>
viewVars == <<expandedElements, toReveal, panelExpanded, pauseMessage, bodySize>>
envVars == <<focus, debug>>
sortVars == <<list, sorted>>
vars == <<view, rendered, timeouts, events, stale, burst, inflight,
          last, input, expanded, selection, revealed, highlight, treeFrame,
          expandedElements, toReveal, panelExpanded, pauseMessage, bodySize,
          focus, debug, list, sorted>>

\* ------------------------------------------------------------------ helpers
Max(a, b) == IF a >= b THEN a ELSE b
Min(a, b) == IF a <= b THEN a ELSE b

RemoveAt(s, i) == [k \in 1..(Len(s) - 1) |-> IF k < i THEN s[k] ELSE s[k + 1]]
ReplaceAt(s, i, x) == [s EXCEPT ![i] = x]
Range(s) == {s[k] : k \in 1..Len(s)}

\* What a step did: the acting handler, its origin (of a settled operation
\* the origin of its chain, of a stack-frame focus event in the variables
\* view whether it is explicit, of a watch-expressions notification its
\* payload), the tree operation that settled (if any)
\* and its outcome, the tree operation the
\* step started (if any), and where a rejection went: "sink" is
\* errors.onUnexpectedError, "unhandled" a rejection that met no error callback
\* of the view.
Did(act, origin, op, ok, next, err) ==
    [act |-> act, origin |-> origin, op |-> op, ok |-> ok, next |-> next, err |-> err]

ToSink == "sink"
Unhandled == "unhandled"

\* A promise chain: who started it, the pending tree operation, its argument,
\* the elements still to expand, and whether the operation loads the tree's
\* content and started after the last change notification.
Chain(origin, pc, arg, todo, fresh) ==
    [origin |-> origin, pc |-> pc, arg |-> arg, todo |-> todo, fresh |-> fresh]

Finished(c) == Chain(c.origin, "done", None, <<>>, FALSE)

\* A change notification arrives: what the pending loads read may be older.
Outdated(chains) == [k \in 1..Len(chains) |-> [chains[k] EXCEPT !.fresh = FALSE]]

\* Where the chain goes after a step: it stays in flight or it is finished.
Continue(i, c) ==
    inflight' = IF c.pc = "done" THEN RemoveAt(inflight, i) ELSE ReplaceAt(inflight, i, c)

\* What a step that started operation pc (if any) records.
Started(c) == IF c.pc = "done" THEN None ELSE c.pc

\* ----------------------------------------------------------- RunOnceScheduler
isScheduled(ts) == ts # <<>>

schedule_NoCancel(ts, delay) == Append(ts, delay)

\* schedule(delay): cancel the pending timeout, if any, and arm a new one.
schedule(ts, delay) == <<delay>>

\* The timeout handler clears the token before it runs the runner.
onTimeout(ts, i) == RemoveAt(ts, i)

delayOf(v) ==
    CASE v = "variables" -> VariablesDelay
      [] v = "watch" -> WatchDelay
      [] v = "callstack" -> CallStackDelay
      [] OTHER -> 0

\* The clock advances in steps of the shortest delay of the file.
TimerResolution == Min(WatchDelay, CallStackDelay)

\* ------------------------------------------------------------ the tree widget
\* Tree.setInput: the input is replaced at once (selection, highlight and
\* expansion belong to the old input's items and are dropped); loading the
\* children is the asynchronous part.
TreeSetInput(element) ==
    /\ input' = element
    /\ selection' = <<>>
    /\ highlight' = None
    /\ expanded' = {}

\* A load that started after the last change notification shows that change
\* when it completes; when it is rejected the tree keeps what it showed.
Loaded(c, ok) ==
    IF ~c.fresh THEN stale
    ELSE IF ok THEN "no"
    ELSE IF stale = "yes" THEN "failed" ELSE stale

\* ------------------------------------------------------------------- scopes
Frames == {"f1", "f2", "f3"}

\* stackFrame.getScopes()
ScopesOf(f) ==
    CASE f = "f1" -> <<"a", "b">>
      [] f = "f2" -> <<"x", "b">>
      [] OTHER -> <<>>

Expensive(scope) == scope = "x"

\* The rows of the variables tree, and tree.getContentHeight().
Rows == ScopesOf(treeFrame)
getContentHeight == Len(Rows) * RowHeight

\* tree.getExpandedElements(), in tree order.
getExpandedElements(set) == SelectSeq(Rows, LAMBDA e : e \in set)

\* tree.expand(e) expands e when the tree holds it.
TreeExpand(set, e) == IF e \in Range(Rows) THEN set \cup {e} ELSE set

\* ------------------------------------------------------- handlers of all views
\* The renderBody setInput settles: its promise is not observed
\* (lines 114, 210, 468). The variables tree then shows the focused frame.
RenderSettleSetInput(i, ok) ==
    LET c == inflight[i] IN
    /\ c.origin = "render" /\ c.pc = "setInput"
    /\ inflight' = RemoveAt(inflight, i)
    /\ stale' = Loaded(c, ok)
    /\ IF ok
          THEN /\ treeFrame' = IF view = "variables" THEN focus.stackFrame ELSE treeFrame
               /\ last' = Did("settle", c.origin, "setInput", TRUE, None, None)
          ELSE /\ UNCHANGED treeFrame
               /\ last' = Did("settle", c.origin, "setInput", FALSE, None, Unhandled)
    /\ UNCHANGED <<view, rendered, timeouts, events, burst, input, expanded,
                   selection, revealed, highlight, viewVars, envVars, sortVars>>

\* What onDidSelectExpression / onDidSelectFunctionBreakpoint hands the view:
\* an element of the view's kind, or something the handler ignores.
Selectable ==
    CASE view = "variables" -> "var1"
      [] view = "watch" -> "expr1"
      [] OTHER -> "fn1"

\* Lines 132-145, 224-237, 470-483: refresh the element, then highlight it.
OnDidSelect(e) ==
    IF e = None
        THEN /\ inflight' = inflight
             /\ last' = Did("onDidSelect", None, None, TRUE, None, None)
        ELSE /\ inflight' = Append(inflight, Chain("select", "refresh", e, <<>>, FALSE))
             /\ last' = Did("onDidSelect", None, None, TRUE, "refresh", None)

ElementSelected ==
    /\ view \in {"variables", "watch", "breakpoints"}
    /\ rendered
    /\ Len(inflight) < MaxInFlight
    /\ events < MaxEvents
    /\ events' = events + 1
    /\ \E e \in {Selectable, None} : OnDidSelect(e)
    /\ UNCHANGED <<view, rendered, timeouts, stale, burst, treeVars,
                   viewVars, envVars, sortVars>>

SelectOnError == ToSink

SelectSettleRefresh(i, ok) ==
    LET c == inflight[i] IN
    /\ c.origin = "select" /\ c.pc = "refresh"
    /\ inflight' = RemoveAt(inflight, i)
    /\ IF ok
          THEN /\ highlight' = c.arg
               /\ last' = Did("settle", c.origin, "refresh", TRUE, None, None)
          ELSE /\ highlight' = highlight
               /\ last' = Did("settle", c.origin, "refresh", FALSE, None, SelectOnError)
    /\ UNCHANGED <<view, rendered, timeouts, events, stale, burst,
                   input, expanded, selection, revealed, treeFrame, viewVars,
                   envVars, sortVars>>

\* ---------------------------------------------------------------- VariablesView
VariablesOnFocus_AlwaysDelayed(explicit) ==
    timeouts' = schedule(timeouts, VariablesDelay)

\* renderBody, lines 119-127: refresh the tree immediately if it is not
\* visible, otherwise postpone the refresh until the user stops stepping.
VariablesOnFocus(explicit) ==
    timeouts' = IF getContentHeight = 0 \/ explicit
                THEN schedule(timeouts, 0)
                ELSE schedule(timeouts, VariablesDelay)

\* The view model fires onDidFocusStackFrame({stackFrame, explicit}).
VariablesFocusChanged ==
    /\ view = "variables"
    /\ rendered
    /\ events < MaxEvents
    /\ events' = events + 1
    /\ \E f \in Frames \cup {None} : \E explicit \in BOOLEAN :
        /\ focus' = [focus EXCEPT !.stackFrame = f]
        /\ VariablesOnFocus(explicit)
        /\ last' = Did("onDidFocusStackFrame", IF explicit THEN "explicit" ELSE None,
                       None, TRUE, None, None)
    /\ stale' = "yes"
    /\ inflight' = Outdated(inflight)
    /\ UNCHANGED <<view, rendered, burst, treeVars, viewVars, debug, sortVars>>

\* renderBody, lines 94-146: the tree is created and given the view model.
VariablesRenderBody ==
    /\ view = "variables"
    /\ ~rendered
    /\ rendered' = TRUE
    /\ TreeSetInput("viewModel")
    /\ inflight' = Append(inflight, Chain("render", "setInput", "viewModel", <<>>, TRUE))
    /\ last' = Did("renderBody", None, None, TRUE, "setInput", None)
    /\ UNCHANGED <<view, timeouts, events, stale, burst, revealed,
                   treeFrame, viewVars, envVars, sortVars>>

\* The user expands or collapses a scope in the variables tree.
VariablesUserToggle ==
    /\ view = "variables"
    /\ rendered
    /\ events < MaxEvents
    /\ events' = events + 1
    /\ \E e \in Range(Rows) :
        expanded' = IF e \in expanded THEN expanded \ {e} ELSE expanded \cup {e}
    /\ last' = Did("user", None, None, TRUE, None, None)
    /\ UNCHANGED <<view, rendered, timeouts, stale, burst, inflight,
                   input, selection, revealed, highlight, treeFrame, viewVars,
                   envVars, sortVars>>

Remember_Overwrite(now, before) == now

\* Lines 68-72: remember expanded elements when there are some (otherwise
\* don't override/erase the previous ones).
Remember(now, before) == IF Len(now) > 0 THEN now ELSE before

\* The scheduler's runner, lines 67-76, up to the call of tree.refresh().
VariablesRunner ==
    /\ expandedElements' = Remember(getExpandedElements(expanded), expandedElements)
    /\ highlight' = None
    /\ inflight' = Append(inflight, Chain("scheduler", "refresh", None, <<>>, TRUE))
    /\ last' = Did("runner", None, None, TRUE, "refresh", None)
    /\ UNCHANGED <<input, expanded, selection, revealed, treeFrame, toReveal,
                   panelExpanded, pauseMessage, bodySize, burst>>

DefaultExpansionWanted_Always(stackFrame, exp) == stackFrame # None

\* Line 80: if there is no preserved expansion state simply expand the first scope.
DefaultExpansionWanted(stackFrame, exp) == stackFrame # None /\ exp = {}

\* Line 82: the first scope, unless there is none or it is expensive.
FirstScopeToExpand(scopes) ==
    IF Len(scopes) > 0 /\ ~Expensive(scopes[1]) THEN scopes[1] ELSE None

\* Lines 78-89: the next tree.expand(e) of the sequence, and after the last
\* one the decision on the default expansion. c.arg is the stack frame read
\* at line 77, c.todo the elements still to expand, exp the expanded set.
VariablesNext(c, exp) ==
    IF c.todo # <<>>
        THEN Chain(c.origin, "expand", c.arg, c.todo, FALSE)
        ELSE IF DefaultExpansionWanted(c.arg, exp)
                THEN Chain(c.origin, "getScopes", c.arg, <<>>, FALSE)
                ELSE Finished(c)

\* Lines 81-86: the scopes arrived.
VariablesAfterScopes(c) ==
    IF FirstScopeToExpand(ScopesOf(c.arg)) # None
        THEN Chain(c.origin, "expandScope", c.arg, <<FirstScopeToExpand(ScopesOf(c.arg))>>,
                   FALSE)
        ELSE Finished(c)

\* Line 90: .done(null, errors.onUnexpectedError) ends the whole chain.
VariablesOnError == ToSink

\* One operation of the runner's chain settles.
VariablesSettle(i, ok) ==
    LET c == inflight[i] IN
    /\ view = "variables" /\ c.origin = "scheduler"
    /\ c.pc \in {"refresh", "expand", "getScopes", "expandScope"}
    /\ IF ~ok
          THEN /\ inflight' = RemoveAt(inflight, i)
               /\ last' = Did("settle", c.origin, c.pc, FALSE, None, VariablesOnError)
               /\ stale' = IF c.pc = "refresh" THEN Loaded(c, FALSE) ELSE stale
               /\ UNCHANGED <<treeFrame, expanded>>
          ELSE
            CASE c.pc = "refresh" ->
                  LET shown == focus.stackFrame
                      exp == expanded \cap Range(ScopesOf(shown))
                      n == VariablesNext(Chain(c.origin, c.pc, focus.stackFrame,
                                               expandedElements, c.fresh), exp)
                  IN /\ stale' = Loaded(c, TRUE)
                     /\ treeFrame' = shown
                     /\ expanded' = exp
                     /\ Continue(i, n)
                     /\ last' = Did("settle", c.origin, "refresh", TRUE, Started(n), None)
              [] c.pc \in {"expand", "expandScope"} ->
                  LET exp == TreeExpand(expanded, Head(c.todo))
                      n == IF c.pc = "expand"
                              THEN VariablesNext([c EXCEPT !.todo = Tail(c.todo)], exp)
                              ELSE Finished(c)
                  IN /\ expanded' = exp
                     /\ Continue(i, n)
                     /\ last' = Did("settle", c.origin, c.pc, TRUE, Started(n), None)
                     /\ UNCHANGED <<stale, treeFrame>>
              [] c.pc = "getScopes" ->
                  LET n == VariablesAfterScopes(c)
                  IN /\ Continue(i, n)
                     /\ last' = Did("settle", c.origin, "getScopes", TRUE, Started(n), None)
                     /\ UNCHANGED <<stale, treeFrame, expanded>>
    /\ UNCHANGED <<view, rendered, timeouts, events, burst, input, selection,
                   revealed, highlight, viewVars, envVars, sortVars>>

\* -------------------------------------------------------- WatchExpressionsView
\* Payload of onDidChangeWatchExpressions: an Expression, or something else.
WatchPayloads == {"expr1", "expr2", None}

IsExpression(we) == we \in {"expr1", "expr2"}

\* constructor, lines 175-180: only expand when a new watch expression is added.
WatchOnChangeExpand(we) ==
    panelExpanded' = IF IsExpression(we) THEN TRUE ELSE panelExpanded

WatchOnChange_Always(we) ==
    /\ timeouts' = schedule(timeouts, WatchDelay)
    /\ toReveal' = we

WatchOnChange_FirstWins(we) ==
    /\ timeouts' = IF ~isScheduled(timeouts) THEN schedule(timeouts, WatchDelay) ELSE timeouts
    /\ toReveal' = IF ~isScheduled(timeouts) THEN we ELSE toReveal

\* renderBody, lines 217-222.
WatchOnChange(we) ==
    /\ timeouts' = IF ~isScheduled(timeouts) THEN schedule(timeouts, WatchDelay) ELSE timeouts
    /\ toReveal' = we

\* The debug model fires onDidChangeWatchExpressions(we).
WatchChanged ==
    /\ view = "watch"
    /\ events < MaxEvents
    /\ events' = events + 1
    /\ \E we \in WatchPayloads :
        /\ WatchOnChangeExpand(we)
        /\ IF rendered
              THEN /\ WatchOnChange(we)
                   /\ stale' = "yes"
                   /\ inflight' = Outdated(inflight)
              ELSE UNCHANGED <<timeouts, toReveal, stale, inflight>>
        /\ last' = Did("onDidChangeWatchExpressions", we, None, TRUE, None, None)
    /\ UNCHANGED <<view, rendered, burst, treeVars, expandedElements, pauseMessage,
                   bodySize, envVars, sortVars>>

\* renderBody, lines 190-238: the tree is created and given the debug model.
WatchRenderBody ==
    /\ view = "watch"
    /\ ~rendered
    /\ rendered' = TRUE
    /\ TreeSetInput("model")
    /\ inflight' = Append(inflight, Chain("render", "setInput", "model", <<>>, TRUE))
    /\ last' = Did("renderBody", None, None, TRUE, "setInput", None)
    /\ UNCHANGED <<view, timeouts, events, stale, burst, revealed,
                   treeFrame, viewVars, envVars, sortVars>>

\* The scheduler's runner, lines 183-187: tree.refresh() is started.
WatchRunner ==
    /\ inflight' = Append(inflight, Chain("scheduler", "refresh", None, <<>>, TRUE))
    /\ last' = Did("runner", None, None, TRUE, "refresh", None)
    /\ UNCHANGED <<treeVars, viewVars, burst>>

\* Line 185, the completion callback: reveal this.toReveal if it is an Expression.
WatchAfterRefresh(c, payload) ==
    IF IsExpression(payload)
        THEN Chain(c.origin, "reveal", payload, <<>>, FALSE)
        ELSE Finished(c)

\* Line 186: errors.onUnexpectedError is the error callback of refresh().done.
WatchOnRefreshError_Dropped == Unhandled
WatchOnRefreshError == ToSink

\* The reveal is what the completion callback returns: done() was given its
\* error callback for the refresh, not for what the callback returns.
WatchOnRevealError == Unhandled

\* One operation of the runner's chain settles.
WatchSettle(i, ok) ==
    LET c == inflight[i] IN
    /\ view = "watch" /\ c.origin = "scheduler" /\ c.pc \in {"refresh", "reveal"}
    /\ IF c.pc = "refresh"
          THEN IF ok
                  THEN LET n == WatchAfterRefresh(c, toReveal)
                       IN /\ stale' = Loaded(c, TRUE)
                          /\ Continue(i, n)
                          /\ last' = Did("settle", c.origin, "refresh", TRUE, Started(n), None)
                          /\ revealed' = revealed
                  ELSE /\ inflight' = RemoveAt(inflight, i)
                       /\ last' = Did("settle", c.origin, "refresh", FALSE, None,
                                      WatchOnRefreshError)
                       /\ stale' = Loaded(c, FALSE)
                       /\ revealed' = revealed
          ELSE /\ inflight' = RemoveAt(inflight, i)
               /\ revealed' = IF ok THEN c.arg ELSE revealed
               /\ last' = Did("settle", c.origin, "reveal", ok, None,
                              IF ok THEN None ELSE WatchOnRevealError)
               /\ stale' = stale
    /\ UNCHANGED <<view, rendered, timeouts, events, burst, input, expanded,
                   selection, highlight, treeFrame, viewVars, envVars, sortVars>>

\* -------------------------------------------------------------- BreakpointsView
BreakpointCounts == {1, MAX_VISIBLE_FILES + 1}

\* getExpandedBodySize, lines 504-508.
getExpandedBodySize(length) == Min(MAX_VISIBLE_FILES, length) * RowHeight

\* Number.POSITIVE_INFINITY
Infinity == 0 - 1

LessThanInfinity(n) == n # Infinity

\* onBreakpointsChange, lines 494-502.
onBreakpointsChange(length) ==
    /\ bodySize' = [min |-> getExpandedBodySize(length),
                    max |-> IF LessThanInfinity(bodySize.max)
                               THEN getExpandedBodySize(length)
                               ELSE bodySize.max]
    /\ IF rendered
          THEN /\ inflight' = Append(Outdated(inflight),
                        Chain("change", "refresh", None, <<>>, TRUE))
               /\ burst' = burst + 1
               /\ last' = Did("onBreakpointsChange", None, None, TRUE, "refresh", None)
          ELSE /\ UNCHANGED <<inflight, burst>>
               /\ last' = Did("onBreakpointsChange", None, None, TRUE, None, None)

\* The debug model fires onDidChangeBreakpoints (subscribed at line 407).
BreakpointsChanged ==
    /\ view = "breakpoints"
    /\ Len(inflight) < MaxInFlight
    /\ events < MaxEvents
    /\ events' = events + 1
    /\ stale' = IF rendered THEN "yes" ELSE stale
    /\ \E n \in BreakpointCounts :
        /\ debug' = [debug EXCEPT !.breakpoints = n]
        /\ onBreakpointsChange(n)
    /\ UNCHANGED <<view, rendered, timeouts, treeVars, expandedElements, toReveal,
                   panelExpanded, pauseMessage, focus, sortVars>>

\* renderBody, lines 410-484.
BreakpointsRenderBody ==
    /\ view = "breakpoints"
    /\ ~rendered
    /\ rendered' = TRUE
    /\ TreeSetInput("model")
    /\ inflight' = Append(inflight, Chain("render", "setInput", "model", <<>>, TRUE))
    /\ last' = Did("renderBody", None, None, TRUE, "setInput", None)
    /\ UNCHANGED <<view, timeouts, events, stale, burst, revealed,
                   treeFrame, viewVars, envVars, sortVars>>

\* Line 500: this.tree.refresh() with its promise dropped.
BreakpointsOnRefreshError == Unhandled

\* The refresh of onBreakpointsChange settles.
BreakpointsSettle(i, ok) ==
    LET c == inflight[i] IN
    /\ view = "breakpoints" /\ c.origin = "change" /\ c.pc = "refresh"
    /\ inflight' = RemoveAt(inflight, i)
    /\ stale' = Loaded(c, ok)
    /\ last' = Did("settle", c.origin, "refresh", ok, None,
                   IF ok THEN None ELSE BreakpointsOnRefreshError)
    /\ UNCHANGED <<view, rendered, timeouts, events, burst, treeVars, viewVars,
                   envVars, sortVars>>

\* ---------------------------------------------------------------- CallStackView
\* The debug model: the number of processes, the number of threads of the
\* first process, whether its first thread has stoppedDetails, and the view
\* model's isMultiProcessView(). p1 is the first process and t1 its first
\* thread; t2 is a thread of a second process p2; f1 and f2 are their frames.
CallStackConfigs ==
    {[processes |-> 0, threads |-> 0, stopped |-> FALSE],
     [processes |-> 1, threads |-> 0, stopped |-> FALSE],
     [processes |-> 1, threads |-> 1, stopped |-> FALSE],
     [processes |-> 1, threads |-> 1, stopped |-> TRUE],
     [processes |-> 1, threads |-> 2, stopped |-> FALSE]}

ProcessOf(thread) == IF thread = "t1" THEN "p1" ELSE "p2"
FrameOf(thread) == IF thread = "t1" THEN "f1" ELSE "f2"
IsThread(e) == e \in {"t1", "t2"}

NoFocus == [process |-> None, thread |-> None, stackFrame |-> None]

\* What the view model can focus: nothing, a process, a thread of it, a frame
\* of that thread.
CallStackFocuses ==
    {NoFocus}
    \cup {[process |-> p, thread |-> None, stackFrame |-> None] : p \in {"p1"}}
    \cup {[process |-> ProcessOf(t), thread |-> t, stackFrame |-> None] : t \in {"t1"}}
    \cup {[process |-> ProcessOf(t), thread |-> t, stackFrame |-> FrameOf(t)] : t \in {"t1", "t2"}}

\* debugService.state
state ==
    IF debug.stopped THEN "Stopped"
    ELSE IF debug.processes > 0 THEN "Running" ELSE "Inactive"

NewTreeInput_ThreadWhenAny(d) ==
    IF ~d.multi /\ d.processes > 0
        THEN IF d.threads >= 1 THEN "t1" ELSE "p1"
        ELSE "model"

\* Lines 268-274: the input of the call stack tree.
NewTreeInput(d) ==
    IF ~d.multi /\ d.processes > 0
        THEN IF d.threads = 1 THEN "t1" ELSE "p1"
        ELSE "model"

\* Lines 276-287: only show the global pause message if we do not display threads.
PauseMessage(newTreeInput, d) ==
    IF IsThread(newTreeInput) /\ d.stopped THEN "shown" ELSE "hidden"

CallStackOnChange_Never == timeouts' = timeouts

\* renderBody, lines 333-337.
CallStackOnChange ==
    timeouts' = IF ~isScheduled(timeouts) THEN schedule(timeouts, CallStackDelay) ELSE timeouts

\* The debug model fires onDidChangeCallStack.
CallStackChanged ==
    /\ view = "callstack"
    /\ rendered
    /\ events < MaxEvents
    /\ events' = events + 1
    /\ \E cfg \in CallStackConfigs :
        debug' = [debug EXCEPT !.processes = cfg.processes,
                               !.threads = cfg.threads,
                               !.stopped = cfg.stopped]
    /\ CallStackOnChange
    /\ stale' = "yes"
    /\ inflight' = Outdated(inflight)
    /\ last' = Did("onDidChangeCallStack", None, None, TRUE, None, None)
    /\ UNCHANGED <<view, rendered, burst, treeVars, viewVars, focus, sortVars>>

RenderSchedules_Never(st) == FALSE

\* Line 342: schedule the update if the viewlet is opened after a session stopped.
RenderSchedules(st) == st = "Stopped"

\* renderBody, lines 302-345: the tree is created without an input; the update
\* is scheduled if the viewlet is opened after a session stopped.
CallStackRenderBody ==
    /\ view = "callstack"
    /\ ~rendered
    /\ rendered' = TRUE
    /\ timeouts' = IF RenderSchedules(state) THEN schedule(timeouts, CallStackDelay)
                                             ELSE timeouts
    /\ last' = Did("renderBody", None, None, TRUE, None, None)
    /\ UNCHANGED <<view, events, stale, burst, inflight, treeVars,
                   viewVars, envVars, sortVars>>

LoadOperation_AlwaysSetInput(current, newTreeInput) == "setInput"

\* Line 289: refresh the tree if it has the input already, else give it the input.
LoadOperation(current, newTreeInput) ==
    IF current = newTreeInput THEN "refresh" ELSE "setInput"

\* The scheduler's runner, lines 267-291, up to the call of refresh or setInput.
CallStackRunner ==
    LET newTreeInput == NewTreeInput(debug) IN
    /\ pauseMessage' = PauseMessage(newTreeInput, debug)
    /\ IF LoadOperation(input, newTreeInput) = "refresh"
          THEN UNCHANGED <<input, selection, highlight, expanded>>
          ELSE TreeSetInput(newTreeInput)
    /\ inflight' = Append(inflight,
             Chain("scheduler", LoadOperation(input, newTreeInput), newTreeInput, <<>>, TRUE))
    /\ last' = Did("runner", None, None, TRUE, LoadOperation(input, newTreeInput), None)
    /\ UNCHANGED <<revealed, treeFrame, expandedElements, toReveal, panelExpanded,
                   bodySize, burst>>

updateTreeSelection_NoInputCheck(origin, focused) ==
    IF focused.thread = None
        THEN IF focused.process = None
                THEN [selection |-> <<>>, chain |-> Chain(origin, "done", None, <<>>, FALSE)]
                ELSE [selection |-> <<focused.process>>,
                      chain |-> Chain(origin, "reveal", focused.process, <<>>, FALSE)]
    ELSE [selection |-> selection,
          chain |-> Chain(origin, "expandAll", focused.stackFrame,
                          <<ProcessOf(focused.thread), focused.thread>>, FALSE)]

updateTreeSelection_KeepSelection(origin, focused) ==
    IF input = None
        THEN [selection |-> selection, chain |-> Chain(origin, "done", None, <<>>, FALSE)]
    ELSE IF focused.thread = None
        THEN IF focused.process = None
                THEN [selection |-> selection, chain |-> Chain(origin, "done", None, <<>>, FALSE)]
                ELSE [selection |-> <<focused.process>>,
                      chain |-> Chain(origin, "reveal", focused.process, <<>>, FALSE)]
    ELSE [selection |-> selection,
          chain |-> Chain(origin, "expandAll", focused.stackFrame,
                          <<ProcessOf(focused.thread), focused.thread>>, FALSE)]

updateTreeSelection_SelectEarly(origin, focused) ==
    IF input = None
        THEN [selection |-> selection, chain |-> Chain(origin, "done", None, <<>>, FALSE)]
    ELSE IF focused.thread = None
        THEN IF focused.process = None
                THEN [selection |-> <<>>, chain |-> Chain(origin, "done", None, <<>>, FALSE)]
                ELSE [selection |-> <<focused.process>>,
                      chain |-> Chain(origin, "reveal", focused.process, <<>>, FALSE)]
    ELSE [selection |-> IF focused.stackFrame = None THEN selection
                                                     ELSE <<focused.stackFrame>>,
          chain |-> Chain(origin, "expandAll", focused.stackFrame,
                          <<ProcessOf(focused.thread), focused.thread>>, FALSE)]

\* updateTreeSelection, lines 347-364: what it does before it returns. The
\* result is the selection it leaves and the chain it returns: finished, a
\* reveal of the process, or expandAll([thread.process, thread]) with the
\* stack frame to select afterwards.
updateTreeSelection(origin, focused) ==
    IF input = None
        THEN [selection |-> selection, chain |-> Chain(origin, "done", None, <<>>, FALSE)]
    ELSE IF focused.thread = None
        THEN IF focused.process = None
                THEN [selection |-> <<>>, chain |-> Chain(origin, "done", None, <<>>, FALSE)]
                ELSE [selection |-> <<focused.process>>,
                      chain |-> Chain(origin, "reveal", focused.process, <<>>, FALSE)]
    ELSE [selection |-> selection,
          chain |-> Chain(origin, "expandAll", focused.stackFrame,
                          <<ProcessOf(focused.thread), focused.thread>>, FALSE)]

\* Lines 366-373: after expandAll, select and reveal the stack frame, if any.
AfterExpandAll(c) ==
    IF c.arg = None
        THEN [selection |-> selection, chain |-> Finished(c)]
        ELSE [selection |-> <<c.arg>>, chain |-> Chain(c.origin, "reveal", c.arg, <<>>, FALSE)]

\* The view model fires onDidFocusStackFrame (lines 338-339).
CallStackFocusChanged ==
    /\ view = "callstack"
    /\ rendered
    /\ Len(inflight) < MaxInFlight
    /\ events < MaxEvents
    /\ events' = events + 1
    /\ \E f \in CallStackFocuses :
        /\ focus' = f
        /\ LET u == updateTreeSelection("focus", f) IN
           /\ selection' = u.selection
           /\ inflight' = IF u.chain.pc = "done" THEN inflight
                                                    ELSE Append(inflight, u.chain)
           /\ last' = Did("onDidFocusStackFrame", None, None, TRUE, Started(u.chain), None)
    /\ UNCHANGED <<view, rendered, timeouts, stale, burst, input,
                   expanded, revealed, highlight, treeFrame, viewVars, debug,
                   sortVars>>

\* Where a rejection of the chain's operation goes. Line 290: the error
\* callback of done() receives a failed refresh or setInput; the promise that
\* updateTreeSelection returns to done()'s completion callback has none.
\* Line 339: the focus handler's done() has the error callback.
CallStackOnError(c) ==
    IF c.origin = "focus" \/ c.pc \in {"refresh", "setInput"} THEN ToSink ELSE Unhandled

\* One operation of a call stack chain settles.
CallStackSettle(i, ok) ==
    LET c == inflight[i] IN
    /\ view = "callstack" /\ c.origin \in {"scheduler", "focus"}
    /\ c.pc \in {"refresh", "setInput", "expandAll", "reveal"}
    /\ IF ~ok
          THEN /\ inflight' = RemoveAt(inflight, i)
               /\ last' = Did("settle", c.origin, c.pc, FALSE, None, CallStackOnError(c))
               /\ stale' = IF c.pc \in {"refresh", "setInput"} THEN Loaded(c, FALSE) ELSE stale
               /\ UNCHANGED <<selection, expanded, revealed>>
          ELSE
            CASE c.pc \in {"refresh", "setInput"} ->
                  LET u == updateTreeSelection(c.origin, focus)
                  IN /\ stale' = Loaded(c, TRUE)
                     /\ selection' = u.selection
                     /\ Continue(i, u.chain)
                     /\ last' = Did("settle", c.origin, c.pc, TRUE, Started(u.chain), None)
                     /\ UNCHANGED <<expanded, revealed>>
              [] c.pc = "expandAll" ->
                  LET u == AfterExpandAll(c)
                  IN /\ expanded' = expanded \cup Range(c.todo)
                     /\ selection' = u.selection
                     /\ Continue(i, u.chain)
                     /\ last' = Did("settle", c.origin, "expandAll", TRUE, Started(u.chain), None)
                     /\ UNCHANGED <<stale, revealed>>
              [] c.pc = "reveal" ->
                  /\ revealed' = c.arg
                  /\ inflight' = RemoveAt(inflight, i)
                  /\ last' = Did("settle", c.origin, "reveal", TRUE, None, None)
                  /\ UNCHANGED <<stale, selection, expanded>>
    /\ UNCHANGED <<view, rendered, timeouts, events, burst, input, highlight,
                   treeFrame, viewVars, envVars, sortVars>>

\* ------------------------------------------------------- the breakpoints sorter
\* The breakpoints the sorter is given: an exception breakpoint, a function
\* breakpoint, and source breakpoints of three files, two of which share
\* their basename.
Uris == {"file:///a/foo", "file:///b/foo", "file:///a/bar"}

Lines == 1..2
Columns == 1..2

Breakpoints ==
    {[kind |-> "exception", uri |-> None, lineNumber |-> 0, column |-> 0],
     [kind |-> "function", uri |-> None, lineNumber |-> 0, column |-> 0]}
    \cup {[kind |-> "source", uri |-> u, lineNumber |-> l, column |-> c] :
            u \in Uris, l \in Lines, c \in Columns}

\* resources.basenameOrAuthority(uri): the last segment of the path.
basenameOrAuthority(uri) ==
    CASE uri = "file:///a/foo" -> "foo"
      [] uri = "file:///b/foo" -> "foo"
      [] uri = "file:///a/bar" -> "bar"
      [] OTHER -> ""

\* Position of a name in the locale's collation order.
Collation(name) ==
    CASE name = "bar" -> 1
      [] name = "foo" -> 2
      [] OTHER -> 0

\* String.prototype.localeCompare
localeCompare(a, b) ==
    IF Collation(a) < Collation(b) THEN 0 - 1
    ELSE IF Collation(a) > Collation(b) THEN 1 ELSE 0

\* sorter.compare, lines 422-446.
compare(first, second) ==
    IF first.kind = "exception" THEN 0 - 1
    ELSE IF second.kind = "exception" THEN 1
    ELSE IF first.kind = "function" THEN 0 - 1
    ELSE IF second.kind = "function" THEN 1
    ELSE IF first.uri # second.uri
        THEN localeCompare(basenameOrAuthority(first.uri), basenameOrAuthority(second.uri))
    ELSE IF first.lineNumber = second.lineNumber
        THEN first.column - second.column
    ELSE first.lineNumber - second.lineNumber

\* The tree sorts the children of an element with Array.prototype.sort and
\* the sorter's compare: for short arrays an insertion sort, in which an
\* element moves left past the elements that compare greater than it.
RECURSIVE Insert(_, _)
Insert(s, element) ==
    IF s = <<>> THEN <<element>>
    ELSE IF compare(s[Len(s)], element) > 0
        THEN Append(Insert(SubSeq(s, 1, Len(s) - 1), element), s[Len(s)])
        ELSE Append(s, element)

RECURSIVE InsertionSort(_)
InsertionSort(s) ==
    IF s = <<>> THEN <<>>
    ELSE Insert(InsertionSort(SubSeq(s, 1, Len(s) - 1)), s[Len(s)])

\* The breakpoints tree lays out the children of its input.
SortChildren ==
    /\ last.act = "constructor"
    /\ sorted' = InsertionSort(list)
    /\ last' = Did("sort", None, None, TRUE, None, None)
    /\ UNCHANGED <<view, rendered, timeouts, events, stale, burst, inflight,
                   treeVars, viewVars, envVars, list>>

\* ------------------------------------------------------------------- the clock
\* Time passes while a timeout is armed or a burst is open; an expired
\* timeout runs its callback before more time passes.
Tick ==
    /\ \A k \in 1..Len(timeouts) : timeouts[k] > 0
    /\ isScheduled(timeouts) \/ burst > 0
    /\ timeouts' = [k \in 1..Len(timeouts) |-> Max(0, timeouts[k] - TimerResolution)]
    /\ burst' = 0
    /\ last' = Did("tick", None, None, TRUE, None, None)
    /\ UNCHANGED <<view, rendered, events, stale, inflight, treeVars, viewVars,
                   envVars, sortVars>>

\* A timeout of the scheduler expires: the token is cleared and the runner runs.
Timeout ==
    /\ Len(inflight) < MaxInFlight
    /\ \E k \in 1..Len(timeouts) :
        /\ timeouts[k] = 0
        /\ timeouts' = onTimeout(timeouts, k)
    /\ CASE view = "variables" -> VariablesRunner
         [] view = "watch" -> WatchRunner
         [] view = "callstack" -> CallStackRunner
         [] OTHER -> FALSE
    /\ UNCHANGED <<view, rendered, events, stale, envVars, sortVars>>

\* --------------------------------------------------------------- specification
Views == {"variables", "watch", "callstack", "breakpoints"}

Init ==
    /\ view \in Views
    /\ rendered = FALSE
    /\ timeouts = <<>>
    /\ events = 0
    /\ stale = "no" /\ burst = 0
    /\ inflight = <<>>
    /\ last = Did("constructor", None, None, TRUE, None, None)
    /\ input = None /\ expanded = {} /\ selection = <<>>
    /\ revealed = None /\ highlight = None /\ treeFrame = None
    /\ expandedElements = <<>>
    /\ toReveal = None
    /\ panelExpanded \in (IF view = "watch" THEN BOOLEAN ELSE {TRUE})
    /\ pauseMessage = "hidden"
    /\ debug \in [processes : {0, 1}, threads : {0, 1}, stopped : BOOLEAN,
                  multi : BOOLEAN, breakpoints : BreakpointCounts]
    /\ IF view = "callstack"
          THEN /\ debug.processes = debug.threads /\ debug.stopped = (debug.threads = 1)
               /\ debug.breakpoints = 1
          ELSE /\ debug.processes = 0 /\ debug.threads = 0 /\ ~debug.stopped
               /\ ~debug.multi
               /\ view # "breakpoints" => debug.breakpoints = 1
    /\ focus = IF debug.stopped
                  THEN [process |-> "p1", thread |-> "t1", stackFrame |-> "f1"]
                  ELSE NoFocus
    /\ bodySize = [min |-> getExpandedBodySize(debug.breakpoints),
                   max |-> getExpandedBodySize(debug.breakpoints)]
    /\ list = <<>> /\ sorted = <<>>

Settle ==
    \E i \in 1..Len(inflight) : \E ok \in BOOLEAN :
        \/ RenderSettleSetInput(i, ok)
        \/ SelectSettleRefresh(i, ok)
        \/ VariablesSettle(i, ok)
        \/ WatchSettle(i, ok)
        \/ CallStackSettle(i, ok)
        \/ BreakpointsSettle(i, ok)

Next ==
    \/ VariablesRenderBody
    \/ VariablesFocusChanged
    \/ VariablesUserToggle
    \/ WatchRenderBody
    \/ WatchChanged
    \/ CallStackRenderBody
    \/ CallStackChanged
    \/ CallStackFocusChanged
    \/ BreakpointsRenderBody
    \/ BreakpointsChanged
    \/ ElementSelected
    \/ Tick
    \/ Timeout
    \/ Settle

Spec == Init /\ [][Next]_vars

\* The event loop runs every due callback: time passes, an expired timeout
\* runs the runner, a pending tree operation settles.
FairSpec == Spec /\ WF_vars(Tick) /\ WF_vars(Timeout) /\ WF_vars(Settle)

\* The sorter alone, on every list of at most MaxLen breakpoints.
InitSort ==
    /\ view = "breakpoints"
    /\ rendered = TRUE
    /\ timeouts = <<>>
    /\ events = 0
    /\ stale = "no" /\ burst = 0
    /\ inflight = <<>>
    /\ last = Did("constructor", None, None, TRUE, None, None)
    /\ input = "model" /\ expanded = {} /\ selection = <<>>
    /\ revealed = None /\ highlight = None /\ treeFrame = None
    /\ expandedElements = <<>>
    /\ toReveal = None
    /\ panelExpanded = TRUE
    /\ pauseMessage = "hidden"
    /\ debug = [processes |-> 0, threads |-> 0, stopped |-> FALSE, multi |-> FALSE,
                breakpoints |-> 1]
    /\ focus = NoFocus
    /\ bodySize = [min |-> getExpandedBodySize(1), max |-> getExpandedBodySize(1)]
    /\ list \in UNION {[1..n -> Breakpoints] : n \in 0..MaxLen}
    /\ sorted = <<>>

SpecSort == InitSort /\ [][SortChildren]_vars

\* ------------------------------------------------------------------- properties
\* C1 as the specification states it: in a view with a scheduler, a change
\* notification that arrives while the refresh is pending leaves the armed
\* timeout as it is, unless the request is an immediate one (delay 0).
C1_Original ==
    [][(/\ rendered
        /\ \/ view = "variables" /\ last'.act = "onDidFocusStackFrame"
           \/ view = "watch" /\ last'.act = "onDidChangeWatchExpressions"
           \/ view = "callstack" /\ last'.act = "onDidChangeCallStack"
        /\ isScheduled(timeouts))
       => (timeouts' = timeouts \/ timeouts' = <<0>>)]_vars

\* C1: in WatchExpressionsView and CallStackView a change notification that
\* arrives while the refresh is pending leaves the armed timeout as it is; in
\* VariablesView every focus notification re-arms the timeout, with delay 0
\* when the tree shows nothing (or the focus is explicit) and with the full
\* delay otherwise, so a pending deadline is reset.
C1_PendingRequest ==
    [][(/\ rendered
        /\ \/ view = "variables" /\ last'.act = "onDidFocusStackFrame"
           \/ view = "watch" /\ last'.act = "onDidChangeWatchExpressions"
           \/ view = "callstack" /\ last'.act = "onDidChangeCallStack"
        /\ isScheduled(timeouts))
       => IF view = "variables"
             THEN /\ timeouts' \in {<<0>>, <<VariablesDelay>>}
                  /\ getContentHeight = 0 => timeouts' = <<0>>
             ELSE timeouts' = timeouts]_vars

\* A watch-expressions notification arrived after the pending timeout had run
\* down, and the timeout is still the expired one.
C1_Witness ==
    /\ view = "watch" /\ rendered
    /\ last.act = "onDidChangeWatchExpressions"
    /\ timeouts = <<0>>

\* C2: a view never has two armed timeouts of its refresh scheduler.
C2_AtMostOneTimer == Len(timeouts) <= 1

\* A second call-stack notification arrived while the timeout was armed, and
\* one timeout is armed.
C2_Witness ==
    /\ view = "callstack" /\ rendered
    /\ last.act = "onDidChangeCallStack"
    /\ events >= 2
    /\ timeouts = <<0>>

\* C3 as the specification states it: the breakpoints-changed notifications
\* that arrive without time passing in between cause at most one call of
\* tree.refresh().
C3_Original == view = "breakpoints" => burst <= 1

\* C4: a rejected refresh (or setInput) of a scheduler's runner goes to
\* errors.onUnexpectedError, the chain ends there and the scheduler is left
\* as it was; a later notification arms the scheduler again and the runner
\* starts a new load of the tree.
C4_RefreshFailureReported ==
    [][/\ (/\ view \in {"variables", "watch", "callstack"}
           /\ last'.act = "settle" /\ last'.origin = "scheduler"
           /\ last'.op \in {"refresh", "setInput"}
           /\ ~last'.ok)
          => /\ last'.err = ToSink
             /\ last'.next = None
             /\ Len(inflight') = Len(inflight) - 1
             /\ timeouts' = timeouts
       /\ (/\ rendered
           /\ \/ view = "variables" /\ last'.act = "onDidFocusStackFrame"
              \/ view = "watch" /\ last'.act = "onDidChangeWatchExpressions"
              \/ view = "callstack" /\ last'.act = "onDidChangeCallStack"
           /\ ~isScheduled(timeouts))
          => isScheduled(timeouts')
       /\ last'.act = "runner"
          => /\ last'.next \in {"refresh", "setInput"}
             /\ Len(inflight') = Len(inflight) + 1]_vars

\* The refresh of a scheduler's runner was rejected and reported.
C4_Witness ==
    /\ last.act = "settle" /\ last.origin = "scheduler"
    /\ last.op = "refresh"
    /\ ~last.ok
    /\ last.err = ToSink

\* C5 as the specification states it: every rejected tree operation of the
\* four views is handed to errors.onUnexpectedError.
C5_Original == (last.act = "settle" /\ ~last.ok) => last.err = ToSink

C7_NoInputNoOp ==
    [][(view = "callstack" /\ last'.act = "onDidFocusStackFrame" /\ input = None)
       => /\ selection' = selection
          /\ expanded' = expanded
          /\ revealed' = revealed
          /\ inflight' = inflight
          /\ last'.ok /\ last'.next = None /\ last'.err = None]_vars

\* A stack frame of a thread got the focus while the tree had no input, and
\* nothing was started.
C7_Witness ==
    /\ view = "callstack" /\ rendered
    /\ last.act = "onDidFocusStackFrame"
    /\ input = None
    /\ focus.thread # None /\ focus.stackFrame # None
    /\ inflight = <<>> /\ selection = <<>> /\ expanded = {}

\* C8: with an input and a focused thread, the focus handler starts
\* expandAll([process, thread]) and leaves the selection alone; the step that
\* completes the expansion selects exactly the stack frame focused at the
\* event and starts its reveal, or, without a focused stack frame, leaves
\* the selection unchanged; a stack frame is never selected in any other step.
C8_ExpandThenSelect ==
    [][view = "callstack" =>
        /\ (last'.act = "onDidFocusStackFrame" /\ input # None /\ focus'.thread # None)
           => /\ selection' = selection
              /\ expanded' = expanded
              /\ last'.next = "expandAll"
              /\ inflight' = Append(inflight,
                     Chain("focus", "expandAll", focus'.stackFrame,
                           <<ProcessOf(focus'.thread), focus'.thread>>, FALSE))
        /\ (last'.act = "settle" /\ last'.op = "expandAll" /\ last'.ok)
           => \E i \in 1..Len(inflight) :
                LET c == inflight[i] IN
                /\ c.pc = "expandAll"
                /\ Range(c.todo) \subseteq expanded'
                /\ IF c.arg # None
                      THEN /\ selection' = <<c.arg>>
                           /\ last'.next = "reveal"
                           /\ inflight' = ReplaceAt(inflight, i,
                                  Chain(c.origin, "reveal", c.arg, <<>>, FALSE))
                      ELSE /\ selection' = selection
                           /\ last'.next = None
                           /\ inflight' = RemoveAt(inflight, i)
        /\ (selection' # selection /\ selection' # <<>> /\ selection'[1] \in Frames)
           => (last'.act = "settle" /\ last'.op = "expandAll" /\ last'.ok)
        /\ (last'.act = "settle" /\ last'.op = "reveal" /\ last'.ok)
           => \E i \in 1..Len(inflight) :
                inflight[i].pc = "reveal" /\ revealed' = inflight[i].arg]_vars

\* The expansion a focus event started has completed: process and thread are
\* expanded, the focused stack frame is selected and its reveal is pending.
C8_Witness ==
    /\ view = "callstack"
    /\ last.act = "settle" /\ last.origin = "focus" /\ last.op = "expandAll" /\ last.ok
    /\ focus.stackFrame # None
    /\ selection = <<focus.stackFrame>>
    /\ {focus.process, focus.thread} \subseteq expanded
    /\ last.next = "reveal"

\* C9 as the specification states it: in the sorter's output the exception
\* breakpoints come first, then the function breakpoints, then the source
\* breakpoints in the order of their files' basenames, those of one file by
\* ascending line and those of one line by ascending column.
C9_Original ==
    last.act = "sort" =>
        /\ Len(sorted) = Len(list)
        /\ \A i, j \in 1..Len(sorted) : i < j =>
            LET a == sorted[i]
                b == sorted[j]
                rank(x) == CASE x.kind = "exception" -> 0
                             [] x.kind = "function" -> 1
                             [] OTHER -> 2
            IN /\ rank(a) <= rank(b)
               /\ (a.kind = "source" /\ b.kind = "source") =>
                    /\ Collation(basenameOrAuthority(a.uri))
                          <= Collation(basenameOrAuthority(b.uri))
                    /\ a.uri = b.uri =>
                          /\ a.lineNumber <= b.lineNumber
                          /\ a.lineNumber = b.lineNumber => a.column <= b.column

\* C10: the runner starts with tree.refresh(); when it completes the
\* remembered elements are expanded one after another, each expand started by
\* the completion of the one before; after the last of them the scopes of the
\* stack frame read at the refresh are asked for exactly when that frame is
\* not null and no element is expanded; when the scopes arrive the first one
\* is expanded exactly when it exists and is not expensive.
C10_RunnerSequence ==
    [][view = "variables" =>
        /\ last'.act = "runner" => last'.next = "refresh"
        /\ (last'.act = "settle" /\ last'.origin = "scheduler" /\ last'.ok)
           => \E i \in 1..Len(inflight) :
                LET c == inflight[i]
                    frame == IF c.pc = "refresh" THEN focus.stackFrame ELSE c.arg
                    rest == CASE c.pc = "refresh" -> expandedElements
                              [] c.pc = "expand" -> Tail(c.todo)
                              [] OTHER -> <<>>
                    scopes == ScopesOf(frame)
                IN /\ c.origin = "scheduler" /\ c.pc = last'.op
                   /\ c.pc \in {"expand", "expandScope"}
                         => expanded' = TreeExpand(expanded, Head(c.todo))
                   /\ CASE c.pc \in {"refresh", "expand"} ->
                             IF rest # <<>>
                                THEN /\ last'.next = "expand"
                                     /\ inflight' = ReplaceAt(inflight, i,
                                            Chain("scheduler", "expand", frame, rest, FALSE))
                             ELSE IF frame # None /\ expanded' = {}
                                THEN /\ last'.next = "getScopes"
                                     /\ inflight' = ReplaceAt(inflight, i,
                                            Chain("scheduler", "getScopes", frame, <<>>, FALSE))
                                ELSE /\ last'.next = None
                                     /\ inflight' = RemoveAt(inflight, i)
                        [] c.pc = "getScopes" ->
                             IF scopes # <<>> /\ ~Expensive(scopes[1])
                                THEN /\ last'.next = "expandScope"
                                     /\ inflight' = ReplaceAt(inflight, i,
                                            Chain("scheduler", "expandScope", frame,
                                                  <<scopes[1]>>, FALSE))
                                ELSE /\ last'.next = None
                                     /\ inflight' = RemoveAt(inflight, i)
                        [] OTHER ->
                             /\ last'.next = None
                             /\ inflight' = RemoveAt(inflight, i)
        /\ \A k \in 1..Len(inflight') :
              inflight'[k].pc = "expandScope" => ~Expensive(inflight'[k].todo[1])]_vars

\* The runner restored a remembered element that the new frame does not
\* have, nothing was expanded after it, and the first scope of the focused
\* frame is being expanded by default.
C10_Witness ==
    /\ view = "variables"
    /\ last.act = "settle" /\ last.origin = "scheduler"
    /\ last.op = "getScopes" /\ last.ok
    /\ last.next = "expandScope"
    /\ expandedElements # <<>>

\* C11: a stack-frame focus event in the variables view that is explicit,
\* or that finds the tree without content height, leaves exactly one timeout
\* armed with delay 0, whatever was pending; any other focus event leaves
\* exactly one timeout armed with the full delay, so time counts anew from
\* it. Between focus events the timeout only runs down with the clock, and
\* the runner runs only when it has run down to 0: at once after an
\* immediate request, 400 ms after the most recent delayed one.
C11_ImmediateOrPostponed ==
    [][view = "variables" =>
        /\ (rendered /\ last'.act = "onDidFocusStackFrame")
           => timeouts' = IF last'.origin = "explicit" \/ getContentHeight = 0
                             THEN <<0>>
                             ELSE <<VariablesDelay>>
        /\ (timeouts' # timeouts /\ last'.act # "onDidFocusStackFrame")
           => \/ /\ last'.act = "tick"
                 /\ Len(timeouts) = 1 /\ timeouts[1] > 0
                 /\ timeouts' = <<Max(0, timeouts[1] - TimerResolution)>>
              \/ /\ last'.act = "runner"
                 /\ timeouts = <<0>> /\ timeouts' = <<>>
        /\ last'.act = "runner" => timeouts = <<0>>]_vars

\* An explicit focus event arrived while the tree was visible and a delayed
\* refresh was still counting, and the timeout is now due at once.
C11_Witness ==
    /\ view = "variables" /\ rendered
    /\ last.act = "onDidFocusStackFrame" /\ last.origin = "explicit"
    /\ getContentHeight > 0
    /\ events >= 3
    /\ timeouts = <<0>>

\* C12: when the runner of the variables view runs, the remembered list
\* becomes the tree's expanded elements if there are any and is kept
\* otherwise; no other step touches it; so a remembered list that is not
\* empty never becomes empty.
C12_RememberedNeverErased ==
    [][view = "variables" =>
        /\ last'.act = "runner"
           => expandedElements' = IF getExpandedElements(expanded) # <<>>
                                     THEN getExpandedElements(expanded)
                                     ELSE expandedElements
        /\ last'.act # "runner" => expandedElements' = expandedElements
        /\ expandedElements # <<>> => expandedElements' # <<>>]_vars

\* The runner ran while nothing was expanded in the tree, and the list
\* remembered at an earlier run is still there.
C12_Witness ==
    /\ view = "variables"
    /\ last.act = "runner"
    /\ expanded = {}
    /\ expandedElements # <<>>

\* C13: every watch-expressions notification the rendered view receives
\* stores its payload as the element to reveal, also when the refresh is
\* already pending and no schedule call is made, and nothing else stores
\* one; when the runner's refresh completes, the reveal of the stored
\* payload is started exactly when that payload is an Expression, and the
\* tree's revealed element changes only when such a reveal completes, to the
\* payload it was started with.
C13_LastPayloadRevealed ==
    [][view = "watch" =>
        /\ (rendered /\ last'.act = "onDidChangeWatchExpressions")
           => toReveal' = last'.origin
        /\ (~rendered \/ last'.act # "onDidChangeWatchExpressions")
           => toReveal' = toReveal
        /\ (last'.act = "settle" /\ last'.origin = "scheduler"
            /\ last'.op = "refresh" /\ last'.ok)
           => \E i \in 1..Len(inflight) :
                /\ inflight[i].origin = "scheduler" /\ inflight[i].pc = "refresh"
                /\ revealed' = revealed
                /\ IF toReveal \in {"expr1", "expr2"}
                      THEN /\ last'.next = "reveal"
                           /\ inflight' = ReplaceAt(inflight, i,
                                  Chain("scheduler", "reveal", toReveal, <<>>, FALSE))
                      ELSE /\ last'.next = None
                           /\ inflight' = RemoveAt(inflight, i)
        /\ revealed' # revealed
           => /\ last'.act = "settle" /\ last'.op = "reveal" /\ last'.ok
              /\ \E i \in 1..Len(inflight) :
                    inflight[i].pc = "reveal" /\ revealed' = inflight[i].arg]_vars

\* After two events or more the runner's refresh completed while the stored
\* payload is not an Expression: no reveal was started, nothing is revealed.
C13_Witness ==
    /\ view = "watch"
    /\ events >= 2
    /\ last.act = "settle" /\ last.origin = "scheduler"
    /\ last.op = "refresh" /\ last.ok
    /\ last.next = None
    /\ toReveal = None
    /\ revealed = None

\* C14: when the runner of the call stack view runs, the input the tree is
\* given (or already has, when it is refreshed) is the debug model if the
\* view is multi-process or there is no process, else the only thread of the
\* first process if it has exactly one thread, else the first process.
C14_InputChoice ==
    [][(view = "callstack" /\ last'.act = "runner")
       => LET chosen == IF debug.multi \/ debug.processes = 0 THEN "model"
                        ELSE IF debug.threads = 1 THEN "t1"
                        ELSE "p1"
          IN /\ input' = chosen
             /\ inflight' # <<>>
             /\ inflight'[Len(inflight')].arg = chosen]_vars

\* The runner ran for a single-process view whose first process has two
\* threads, and the tree's input is that process.
C14_Witness ==
    /\ view = "callstack"
    /\ last.act = "runner"
    /\ ~debug.multi /\ debug.processes = 1 /\ debug.threads = 2
    /\ input = "p1"

\* C15: the runner of the call stack view starts exactly one load of the
\* tree: refresh() when the chosen input is the input the tree has,
\* setInput(chosen) otherwise, and nothing of updateTreeSelection yet. When
\* that load completes, updateTreeSelection runs with the focus of that
\* moment; when it is rejected, the selection and the expansion stay as they
\* are and the chain ends without starting anything.
C15_LoadThenSelect ==
    [][view = "callstack" =>
        /\ last'.act = "runner"
           => /\ Len(inflight') = Len(inflight) + 1
              /\ SubSeq(inflight', 1, Len(inflight)) = inflight
              /\ inflight'[Len(inflight')].origin = "scheduler"
              /\ inflight'[Len(inflight')].pc = last'.next
              /\ IF input = NewTreeInput(debug)
                    THEN /\ last'.next = "refresh"
                         /\ input' = input
                         /\ selection' = selection /\ expanded' = expanded
                    ELSE /\ last'.next = "setInput"
                         /\ input' = NewTreeInput(debug)
        /\ (last'.act = "settle" /\ last'.origin = "scheduler"
            /\ last'.op \in {"refresh", "setInput"})
           => /\ expanded' = expanded /\ revealed' = revealed
              /\ IF ~last'.ok
                    THEN /\ selection' = selection
                         /\ last'.next = None
                         /\ Len(inflight') = Len(inflight) - 1
                    ELSE IF focus.thread # None
                    THEN /\ selection' = selection
                         /\ last'.next = "expandAll"
                         /\ Len(inflight') = Len(inflight)
                    ELSE IF focus.process # None
                    THEN /\ selection' = <<focus.process>>
                         /\ last'.next = "reveal"
                         /\ Len(inflight') = Len(inflight)
                    ELSE /\ selection' = <<>>
                         /\ last'.next = None
                         /\ Len(inflight') = Len(inflight) - 1]_vars

\* The runner's setInput was rejected while a thread had the focus: no
\* expansion was started and nothing is selected or expanded.
C15_Witness ==
    /\ view = "callstack"
    /\ last.act = "settle" /\ last.origin = "scheduler"
    /\ last.op = "setInput" /\ ~last.ok
    /\ focus.thread # None
    /\ inflight = <<>>
    /\ selection = <<>> /\ expanded = {}

\* C16: updateTreeSelection with an input and no focused thread, called by
\* the focus handler or after the runner's load: without a focused process
\* the selection is cleared and nothing is started; with one the selection
\* becomes exactly that process and its reveal is started, which sets the
\* revealed element when it completes; none of these steps expands a node.
C16_NoThreadSelection ==
    [][view = "callstack" =>
        /\ (last'.act = "onDidFocusStackFrame" /\ input # None /\ focus'.thread = None)
           => /\ expanded' = expanded
              /\ IF focus'.process = None
                    THEN /\ selection' = <<>>
                         /\ last'.next = None
                         /\ inflight' = inflight
                    ELSE /\ selection' = <<focus'.process>>
                         /\ last'.next = "reveal"
                         /\ inflight' = Append(inflight,
                                Chain("focus", "reveal", focus'.process, <<>>, FALSE))
        /\ (last'.act = "settle" /\ last'.origin = "scheduler" /\ last'.ok
            /\ last'.op \in {"refresh", "setInput"} /\ focus.thread = None)
           => /\ expanded' = expanded
              /\ IF focus.process = None
                    THEN selection' = <<>> /\ last'.next = None
                    ELSE /\ selection' = <<focus.process>>
                         /\ last'.next = "reveal"
                         /\ \E i \in 1..Len(inflight') :
                               inflight'[i] = Chain("scheduler", "reveal", focus.process,
                                                    <<>>, FALSE)
        /\ (last'.act = "settle" /\ last'.op = "reveal")
           => /\ expanded' = expanded
              /\ selection' = selection]_vars

\* A process without a thread got the focus while the tree had an input:
\* the process is selected, its reveal is pending, nothing is expanded.
C16_Witness ==
    /\ view = "callstack"
    /\ last.act = "onDidFocusStackFrame"
    /\ input # None
    /\ focus.process = "p1" /\ focus.thread = None
    /\ selection = <<"p1">>
    /\ last.next = "reveal"
    /\ expanded = {}

====
